---- MODULE Spec2Model ----
(***************************************************************************)
(* EnvVault, vault-core/src/lib.rs: the secrets table of the SQLite store, *)
(* the masking formatter, the .env codec and the shell sync.               *)
(*                                                                         *)
(* A string is a sequence of characters; a character is a one-element     *)
(* token ("a", "=", ...).  Rust strings are UTF-8: str::len and the range  *)
(* indexing of mask_value count BYTES, so every character carries its      *)
(* encoded width (Width).  "U+00E9" is a two-byte character, "U+20AC" a    *)
(* three-byte one.                                                         *)
(***************************************************************************)
EXTENDS Integers, Sequences, FiniteSets, TLC

VARIABLES
    db,        \* the rows of table secrets: records [id, key, value, created_at, updated_at]
    seq,       \* sqlite_sequence.seq of table secrets: the largest id ever assigned
    now,       \* CURRENT_TIMESTAMP
    assigned,  \* history: the sequence of ids the store has assigned, in order
    ret,       \* the last call and what it returned
    dotfile,   \* content of ~/.envvault, NoFile when it does not exist
    profiles,  \* profile name -> content (a sequence of text pieces) or NoFile
    imp,       \* caller -> the import it is running (statement-level interleaving)
    syn,       \* caller -> the sync_to_shell it is running (file-operation interleaving)
    mval,      \* input of the masking formatter
    mout       \* its output

vars == <<db, seq, now, assigned, ret, dotfile, profiles, imp, syn, mval, mout>>

----------------------------------------------------------------------------
(* Bounds *)

MaxId == 4
MaxClock == 1
MaxLen == 9
MaxText == 5

----------------------------------------------------------------------------
(* Characters and strings *)

\* Unicode scalar value of a character token.
Code(c) ==
    CASE c = "\n" -> 10
      [] c = "\t" -> 9
      [] c = "\r" -> 13
      [] c = " " -> 32
      [] c = "\"" -> 34
      [] c = "#" -> 35
      [] c = "%" -> 37
      [] c = "'" -> 39
      [] c = "*" -> 42
      [] c = "." -> 46
      [] c = "1" -> 49
      [] c = "2" -> 50
      [] c = "=" -> 61
      [] c = "A" -> 65
      [] c = "B" -> 66
      [] c = "C" -> 67
      [] c = "K" -> 75
      [] c = "\\" -> 92
      [] c = "_" -> 95
      [] c = "a" -> 97
      [] c = "b" -> 98
      [] c = "c" -> 99
      [] c = "d" -> 100
      [] c = "e" -> 101
      [] c = "f" -> 102
      [] c = "g" -> 103
      [] c = "h" -> 104
      [] c = "i" -> 105
      [] c = "k" -> 107
      [] c = "v" -> 118
      [] c = "U+00E9" -> 233
      [] c = "U+20AC" -> 8364

\* Number of bytes of the UTF-8 encoding of a character.
Width(c) ==
    IF Code(c) < 128 THEN 1 ELSE IF Code(c) < 2048 THEN 2 ELSE IF Code(c) < 65536 THEN 3 ELSE 4

RECURSIVE ByteLen(_)
\* str::len: the length of a string in bytes.
ByteLen(s) == IF s = <<>> THEN 0 ELSE Width(Head(s)) + ByteLen(Tail(s))

\* Whether byte offset n falls on a character boundary of s.
IsCharBoundary(s, n) == \E k \in 0..Len(s) : ByteLen(SubSeq(s, 1, k)) = n

\* &s[..n]: the characters of the first n bytes (n a character boundary).
BytePrefix(s, n) ==
    SubSeq(s, 1, CHOOSE k \in 0..Len(s) : ByteLen(SubSeq(s, 1, k)) = n)

\* &s[n..]: the characters from byte offset n on (n a character boundary).
ByteSuffix(s, n) ==
    SubSeq(s, (CHOOSE k \in 0..Len(s) : ByteLen(SubSeq(s, 1, k)) = n) + 1, Len(s))

\* "*".repeat(n)
Stars(n) == [i \in 1..n |-> "*"]

\* What a call yields when the Rust code panics instead of returning.
Panic == <<"!panic">>

----------------------------------------------------------------------------
(* Masking formatter *)

\* mask_value, lib.rs 55-61.
mask_value(value) ==
    IF ByteLen(value) <= 8
    THEN Stars(ByteLen(value))
    ELSE IF IsCharBoundary(value, 4) /\ IsCharBoundary(value, ByteLen(value) - 4)
         THEN BytePrefix(value, 4) \o <<".", ".", ".">> \o ByteSuffix(value, ByteLen(value) - 4)
         ELSE Panic

----------------------------------------------------------------------------
(* Text helpers of the Rust standard library *)

\* char::is_whitespace, for the characters of the model.
IsSpace(c) == c \in {" ", "\t", "\n", "\r"}

RECURSIVE TrimStart(_)
\* str::trim_start
TrimStart(s) == IF s # <<>> /\ IsSpace(Head(s)) THEN TrimStart(Tail(s)) ELSE s

RECURSIVE TrimEnd(_)
\* str::trim_end
TrimEnd(s) ==
    IF s # <<>> /\ IsSpace(s[Len(s)]) THEN TrimEnd(SubSeq(s, 1, Len(s) - 1)) ELSE s

\* str::trim
Trim(s) == TrimEnd(TrimStart(s))

RECURSIVE TrimStartMatches(_, _)
\* str::trim_start_matches(char): removes EVERY leading occurrence.
TrimStartMatches(s, c) ==
    IF s # <<>> /\ Head(s) = c THEN TrimStartMatches(Tail(s), c) ELSE s

RECURSIVE TrimEndMatches(_, _)
\* str::trim_end_matches(char): removes EVERY trailing occurrence.
TrimEndMatches(s, c) ==
    IF s # <<>> /\ s[Len(s)] = c THEN TrimEndMatches(SubSeq(s, 1, Len(s) - 1), c) ELSE s

\* A trim that removes at most one leading and one trailing occurrence.
TrimOneEach(s, c) ==
    LET t == IF s # <<>> /\ Head(s) = c THEN Tail(s) ELSE s
    IN  IF t # <<>> /\ t[Len(t)] = c THEN SubSeq(t, 1, Len(t) - 1) ELSE t

\* str::trim_matches(char)
TrimMatches(s, c) == TrimEndMatches(TrimStartMatches(s, c), c)

\* Position of the first occurrence of character c in s, 0 when there is none.
Find(s, c) ==
    IF \E i \in 1..Len(s) : s[i] = c
    THEN CHOOSE i \in 1..Len(s) : s[i] = c /\ \A j \in 1..(i - 1) : s[j] # c
    ELSE 0

RECURSIVE Lines(_)
\* str::lines: split at "\n", a "\r" before it removed; a final empty line is
\* not produced.
Lines(s) ==
    IF s = <<>> THEN <<>>
    ELSE LET i == Find(s, "\n")
             raw == IF i = 0 THEN s ELSE SubSeq(s, 1, i - 1)
             line == IF raw # <<>> /\ raw[Len(raw)] = "\r" /\ i # 0
                     THEN SubSeq(raw, 1, Len(raw) - 1) ELSE raw
         IN  IF i = 0 THEN <<line>> ELSE <<line>> \o Lines(SubSeq(s, i + 1, Len(s)))

\* str::contains(&str): needle occurs in s as a contiguous substring.
Contains(s, needle) ==
    \E i \in 0..(Len(s) - Len(needle)) : SubSeq(s, i + 1, i + Len(needle)) = needle

RECURSIVE Replace(_, _, _)
\* str::replace(char, &str)
Replace(s, c, with) ==
    IF s = <<>> THEN <<>>
    ELSE (IF Head(s) = c THEN with ELSE <<Head(s)>>) \o Replace(Tail(s), c, with)

RECURSIVE Join(_, _)
\* [String]::join(sep)
Join(parts, sep) ==
    IF parts = <<>> THEN <<>>
    ELSE IF Len(parts) = 1 THEN parts[1]
    ELSE parts[1] \o sep \o Join(Tail(parts), sep)

----------------------------------------------------------------------------
(* The secrets table *)

RECURSIVE KeyLess(_, _)
\* BINARY collation of ORDER BY key ASC: memcmp of the UTF-8 bytes, which
\* orders strings as their code points do.
KeyLess(a, b) ==
    IF b = <<>> THEN FALSE
    ELSE IF a = <<>> THEN TRUE
    ELSE IF Code(Head(a)) # Code(Head(b)) THEN Code(Head(a)) < Code(Head(b))
    ELSE KeyLess(Tail(a), Tail(b))

RECURSIVE OrderByKey(_)
\* SELECT ... ORDER BY key ASC: the rows as a sequence, smallest key first.
OrderByKey(rows) ==
    IF rows = {} THEN <<>>
    ELSE LET first == CHOOSE r \in rows : \A o \in rows : o = r \/ KeyLess(r.key, o.key)
         IN  <<first>> \o OrderByKey(rows \ {first})

\* LIMIT n
Limit(rs, n) == SubSeq(rs, 1, IF Len(rs) < n THEN Len(rs) ELSE n)

MaxOf(S) == IF S = {} THEN 0 ELSE CHOOSE x \in S : \A y \in S : y <= x

IdsIn(rows) == {r.id : r \in rows}

\* A rowid chosen without AUTOINCREMENT: one more than the largest rowid in the table.
NextRowidPlain(rows, s) == MaxOf(IdsIn(rows)) + 1

\* id INTEGER PRIMARY KEY AUTOINCREMENT, lib.rs 42: one more than the largest
\* rowid the table ever held (sqlite_sequence).
NextRowid(rows, s) == MaxOf(IdsIn(rows) \cup {s}) + 1

\* The store as the statements see it.
Store == [db |-> db, seq |-> seq, assigned |-> assigned]

\* A plain INSERT into a table whose key column is not UNIQUE.
InsertNoReplace(st, t, key, value) ==
    LET id == MaxOf(IdsIn(st.db) \cup {st.seq}) + 1
    IN  [db |-> st.db \cup {[id |-> id, key |-> key, value |-> value,
                             created_at |-> t, updated_at |-> t]},
         seq |-> id,
         assigned |-> Append(st.assigned, id)]

\* An insert-or-replace that stores the value escaped as the export writes it.
InsertEscaped(st, t, key, value) ==
    LET id == MaxOf(IdsIn(st.db) \cup {st.seq}) + 1
    IN  [db |-> {r \in st.db : r.key # key} \cup
                {[id |-> id, key |-> key, value |-> Replace(value, "\"", <<"\\", "\"">>),
                  created_at |-> t, updated_at |-> t]},
         seq |-> id,
         assigned |-> Append(st.assigned, id)]

\* INSERT OR REPLACE INTO secrets (key, value, updated_at) VALUES (?1, ?2,
\* CURRENT_TIMESTAMP), lib.rs 154 and 215: the UNIQUE constraint on key
\* (lib.rs 43) makes REPLACE delete the row holding the key; the new row gets
\* a fresh id and the created_at default.
InsertOrReplace(st, t, key, value) ==
    LET id == NextRowid(st.db, st.seq)
    IN  [db |-> {r \in st.db : r.key # key /\ r.id # id} \cup
                {[id |-> id, key |-> key, value |-> value,
                  created_at |-> t, updated_at |-> t]},
         seq |-> IF id > st.seq THEN id ELSE st.seq,
         assigned |-> Append(st.assigned, id)]

\* An UPDATE whose WHERE clause is lost.
UpdateEveryRow(rows, t, id, value) ==
    {[r EXCEPT !.value = value, !.updated_at = t] : r \in rows}

\* UPDATE secrets SET value = ?1, updated_at = CURRENT_TIMESTAMP WHERE id = ?2,
\* lib.rs 186.
UpdateRows(rows, t, id, value) ==
    {IF r.id = id THEN [r EXCEPT !.value = value, !.updated_at = t] ELSE r : r \in rows}

\* A DELETE whose WHERE clause is lost.
DeleteEveryRow(rows, id) == {}

\* A DELETE whose WHERE clause matches no row.
DeleteNone(rows, id) == rows

\* DELETE FROM secrets WHERE id = ?1, lib.rs 170.
DeleteRows(rows, id) == {r \in rows : r.id # id}

\* SELECT value FROM secrets WHERE id = ?1 through query_row(..).ok(),
\* lib.rs 136-142: Some(value) is <<value>>, None is <<>>.
SelectValue(rows, id) ==
    IF \E r \in rows : r.id = id THEN <<(CHOOSE r \in rows : r.id = id).value>> ELSE <<>>

----------------------------------------------------------------------------
(* Listing and search *)

\* A summary that carries the stored value itself.
RawItem(r) == [id |-> r.id, key |-> r.key, value_masked |-> r.value]

\* SecretItem { id, key, value_masked: mask_value(&value) }, lib.rs 83-87 and 115-119.
SecretItem(r) == [id |-> r.id, key |-> r.key, value_masked |-> mask_value(r.value)]

\* query_map(..).filter_map(|r| r.ok()).collect(), lib.rs 79-93 and 111-125.
CollectItems(rs) == [i \in 1..Len(rs) |-> SecretItem(rs[i])]

\* The closure of query_map runs mask_value on each row: a panic in it unwinds
\* the whole call, which then returns nothing.
Panics(rs) == \E i \in 1..Len(rs) : mask_value(rs[i].value) = Panic

ListLimit == 50
SearchLimit == 20

\* A listing without the LIMIT.
SelectAllUncapped(rows) == OrderByKey(rows)

\* SELECT id, key, value FROM secrets ORDER BY key ASC LIMIT 50, lib.rs 104-106.
SelectAll(rows) == Limit(OrderByKey(rows), ListLimit)

\* The ASCII case folding of LIKE: only A-Z and a-z compare equal.
FoldCode(c) == IF Code(c) \in 65..90 THEN Code(c) + 32 ELSE Code(c)

RECURSIVE LikeMatch(_, _)
\* The LIKE operator of SQLite (no ESCAPE): % matches any run of characters,
\* _ matches any one character, every other character matches itself up to
\* ASCII case.
LikeMatch(pat, s) ==
    IF pat = <<>> THEN s = <<>>
    ELSE IF Head(pat) = "%"
         THEN LikeMatch(Tail(pat), s) \/ (s # <<>> /\ LikeMatch(pat, Tail(s)))
    ELSE IF s = <<>> THEN FALSE
    ELSE /\ Head(pat) = "_" \/ FoldCode(Head(pat)) = FoldCode(Head(s))
         /\ LikeMatch(Tail(pat), Tail(s))

\* format!("%{}%", query), lib.rs 71.
SearchPattern(query) == <<"%">> \o query \o <<"%">>

\* SELECT id, key, value FROM secrets WHERE key LIKE ?1 COLLATE NOCASE
\* ORDER BY key ASC LIMIT 20, lib.rs 72-74.
SelectLike(rows, query) ==
    Limit(OrderByKey({r \in rows : LikeMatch(SearchPattern(query), r.key)}), SearchLimit)

----------------------------------------------------------------------------
(* Env codec *)

\* The text of one exported record after the prefix: KEY="VALUE" with every
\* double quote of VALUE written as \", lib.rs 250 and 287.
Assignment(r) == r.key \o <<"=", "\"">> \o Replace(r.value, "\"", <<"\\", "\"">>) \o <<"\"">>

\* export_to_env_string over the selected rows, lib.rs 249-252.
EnvText(rs) == Join([i \in 1..Len(rs) |-> Assignment(rs[i])], <<"\n">>)

\* The content of the dotfile, lib.rs 286-289.
ExportPrefix == <<"e", "x", "p", "o", "r", "t", " ">>
ShellText(rs) == Join([i \in 1..Len(rs) |-> ExportPrefix \o Assignment(rs[i])], <<"\n">>)

\* A parser that splits a line at its last "=".
ParseLineLastEq(rawline) ==
    LET line == Trim(rawline)
        eqs == {i \in 1..Len(line) : line[i] = "="}
        eq == IF eqs = {} THEN 0 ELSE MaxOf(eqs)
        key == Trim(SubSeq(line, 1, eq - 1))
        value == TrimMatches(TrimMatches(Trim(SubSeq(line, eq + 1, Len(line))), "\""), "'")
    IN  IF line = <<>> \/ Head(line) = "#" THEN <<>>
        ELSE IF eq = 0 THEN <<>>
        ELSE IF key = <<>> THEN <<>>
        ELSE <<[key |-> key, value |-> value]>>

\* One line of import_from_env_string, lib.rs 204-213: <<>> when the line is
\* skipped, else <<[key, value]>>.
ParseLine(rawline) ==
    LET line == Trim(rawline)
        eq == Find(line, "=")
        key == Trim(SubSeq(line, 1, eq - 1))
        value == TrimMatches(TrimMatches(Trim(SubSeq(line, eq + 1, Len(line))), "\""), "'")
    IN  IF line = <<>> \/ Head(line) = "#" THEN <<>>
        ELSE IF eq = 0 THEN <<>>
        ELSE IF key = <<>> THEN <<>>
        ELSE <<[key |-> key, value |-> value]>>

RECURSIVE ParseLines(_)
\* The accepted entries of the lines, in order.
ParseLines(ls) == IF ls = <<>> THEN <<>> ELSE ParseLine(Head(ls)) \o ParseLines(Tail(ls))

\* The entries the import loop writes for a text, lib.rs 203-223.
Entries(content) == ParseLines(Lines(content))

RECURSIVE ExecEntries(_, _, _, _, _)
\* The loop of lib.rs 203-223 from entry i on: each entry is one INSERT OR
\* REPLACE; the entries whose index is in failed make the statement fail and
\* are not counted.  Yields the store and the count.
ExecEntries(st, t, es, i, failed) ==
    IF i > Len(es) THEN [st |-> st, imported |-> 0]
    ELSE IF i \in failed THEN ExecEntries(st, t, es, i + 1, failed)
    ELSE LET rest == ExecEntries(InsertOrReplace(st, t, es[i].key, es[i].value),
                                 t, es, i + 1, failed)
         IN  [st |-> rest.st, imported |-> rest.imported + 1]

----------------------------------------------------------------------------
(* Inputs of the calls *)

KeyAB == <<"A", "B">>
KeyLower == <<"a", "_", "b">>
KeyK == <<"K">>
Keys == {KeyAB, KeyLower, KeyK}

ValShort == <<"v", "1">>
ValStars == <<"*", "*">>
ValDots == <<"a", "b", "c", "d", ".", ".", ".", "e", "f", "g", "h">>
ValQuote == <<"a", "\"", "b">>
ValLong == <<"a", "b", "c", "d", "e", "f", "g", "h", "i">>
ValEuro == <<"U+20AC", "U+20AC", "U+20AC">>
Values == {ValShort, ValStars, ValDots, ValQuote, ValLong, ValEuro}

Queries == {<<>>, <<"a", "b">>, <<"_">>, <<"%">>, <<"k">>, <<"A", "_">>}

TextExample == <<"A", "B", "=", "v", "1", "\n", "#", " ", "c", "\n", "K", "=", "\"", "v", "1", "\"", "\n">>
TextTwice == <<"K", "=", "a", "\"", "b", "\n", "K", "=", "v", "1">>
TextOdd == <<"n", "o", "e", "q", "\n", "=", "v", "1", "\n", " ", " ", "\n", "K", " ", "=", " ", "'", "v", "1", "'", " ">>
Texts == {TextExample, TextTwice, TextOdd}

Ids == 1..MaxId

NoFile == <<"!nofile">>

\* What a call left behind: its name, its arguments, whether its connection
\* and statement worked, and the result it returned.
Ret(op, arg, ok, out) == [op |-> op, arg |-> arg, ok |-> ok, out |-> out, panic |-> FALSE]

\* What list and search leave behind for the selected rows rs: the summaries,
\* or a panic and no result.
RetItems(op, arg, ok, rs) ==
    [op |-> op, arg |-> arg, ok |-> ok,
     out |-> IF Panics(rs) THEN <<>> ELSE CollectItems(rs),
     panic |-> Panics(rs)]

----------------------------------------------------------------------------
(* The calls.  Every call opens its own connection (Connection::open); ok is *)
(* FALSE when the connection or the statement fails.                         *)

files == <<dotfile, profiles>>
masking == <<mval, mout>>

\* init_database, lib.rs 34-52: CREATE TABLE IF NOT EXISTS leaves an existing
\* table alone.
InitDatabase(ok) ==
    /\ ret' = Ret("init", <<>>, ok, ok)
    /\ UNCHANGED <<db, seq, now, assigned, files, imp, syn, masking>>

\* add_secret, lib.rs 147-159.
AddSecret(key, value, ok) ==
    /\ ok => seq < MaxId
    /\ LET st == IF ok THEN InsertOrReplace(Store, now, key, value) ELSE Store
       IN  /\ db' = st.db
           /\ seq' = st.seq
           /\ assigned' = st.assigned
    /\ ret' = Ret("add", <<key, value>>, ok, ok)
    /\ UNCHANGED <<now, files, imp, syn, masking>>

\* delete_secret, lib.rs 163-175: execute yields Ok(rows changed), also Ok(0).
DeleteSecret(id, ok) ==
    /\ db' = IF ok THEN DeleteRows(db, id) ELSE db
    /\ ret' = Ret("delete", <<id>>, ok, ok)
    /\ UNCHANGED <<seq, now, assigned, files, imp, syn, masking>>

\* update_secret, lib.rs 179-191: execute yields Ok(rows changed), also Ok(0).
UpdateSecret(id, value, ok) ==
    /\ db' = IF ok THEN UpdateRows(db, now, id, value) ELSE db
    /\ ret' = Ret("update", <<id, value>>, ok, ok)
    /\ UNCHANGED <<seq, now, assigned, files, imp, syn, masking>>

\* A read that removes the row it has read.
GetFullOnce(id, ok) ==
    /\ ret' = Ret("getFull", <<id>>, ok, IF ok THEN SelectValue(db, id) ELSE <<>>)
    /\ db' = IF ok THEN DeleteRows(db, id) ELSE db
    /\ UNCHANGED <<seq, now, assigned, files, imp, syn, masking>>

\* get_full_secret, lib.rs 130-143.
GetFullSecret(id, ok) ==
    /\ ret' = Ret("getFull", <<id>>, ok, IF ok THEN SelectValue(db, id) ELSE <<>>)
    /\ UNCHANGED <<db, seq, now, assigned, files, imp, syn, masking>>

\* get_all_secrets, lib.rs 98-126.
GetAllSecrets(ok) ==
    /\ ret' = RetItems("list", <<>>, ok, IF ok THEN SelectAll(db) ELSE <<>>)
    /\ UNCHANGED <<db, seq, now, assigned, files, imp, syn, masking>>

\* search_vault, lib.rs 65-94.
SearchVault(query, ok) ==
    /\ ret' = RetItems("search", <<query>>, ok, IF ok THEN SelectLike(db, query) ELSE <<>>)
    /\ UNCHANGED <<db, seq, now, assigned, files, imp, syn, masking>>

\* import_from_env_string, lib.rs 195-226, as one call.
ImportFromEnvString(content, failed, ok) ==
    LET es == IF ok THEN Entries(content) ELSE <<>>
        run == ExecEntries(Store, now, es, 1, failed)
    IN  /\ failed \subseteq 1..Len(es)
        /\ seq + Len(es) - Cardinality(failed) <= MaxId
        /\ db' = run.st.db
        /\ seq' = run.st.seq
        /\ assigned' = run.st.assigned
        /\ ret' = Ret("import", <<content, failed>>, ok, run.imported)
        /\ UNCHANGED <<now, files, imp, syn, masking>>

\* export_to_env_string, lib.rs 230-253.
ExportToEnvString(ok) ==
    /\ ret' = Ret("export", <<>>, ok, IF ok THEN EnvText(OrderByKey(db)) ELSE <<>>)
    /\ UNCHANGED <<db, seq, now, assigned, files, imp, syn, masking>>

\* CURRENT_TIMESTAMP advances between calls.
Tick ==
    /\ now < MaxClock
    /\ now' = now + 1
    /\ UNCHANGED <<db, seq, assigned, ret, files, imp, syn, masking>>

ProfileNames == {".zshrc", ".bashrc", ".bash_profile"}
Callers == {"c1", "c2"}
Idle == [lines |-> <<>>, imported |-> 0, busy |-> FALSE]
SynIdle == [pc |-> "idle", at |-> 0, before |-> <<>>]

\* The store right after init_database on a new file; no call made yet.
Init ==
    /\ db = {}
    /\ seq = 0
    /\ now = 0
    /\ assigned = <<>>
    /\ ret = Ret("none", <<>>, TRUE, <<>>)
    /\ dotfile = NoFile
    /\ profiles = [p \in ProfileNames |-> NoFile]
    /\ imp = [c \in Callers |-> Idle]
    /\ syn = [c \in Callers |-> SynIdle]
    /\ mval = <<>>
    /\ mout = <<>>

CrudKeys == {KeyAB, KeyK}
CrudValues == {ValShort, ValQuote}

\* The calls that write the store and read one value back, from any state.
Next ==
    \/ \E ok \in BOOLEAN : InitDatabase(ok)
    \/ \E key \in CrudKeys, value \in CrudValues, ok \in BOOLEAN : AddSecret(key, value, ok)
    \/ \E id \in Ids, ok \in BOOLEAN : DeleteSecret(id, ok)
    \/ \E id \in Ids, value \in CrudValues, ok \in BOOLEAN : UpdateSecret(id, value, ok)
    \/ \E id \in Ids, ok \in BOOLEAN : GetFullSecret(id, ok)
    \/ \E content \in Texts, failed \in SUBSET (1..2), ok \in BOOLEAN :
          ImportFromEnvString(content, failed, ok)

Spec == Init /\ [][Next]_vars

----------------------------------------------------------------------------
(* Claims on the store calls, under Spec *)

RowOf(key) == CHOOSE r \in db : r.key = key
HasKey(key) == \E r \in db : r.key = key

\* C4: for every non-empty key K and value V, a get_full_secret that follows a
\* successful add_secret(K, V), asks for the id of the row holding K and
\* reaches the store, returns Some(V): the value as it was given.
C4_AddThenGetFull ==
    [][(/\ ret.op = "add" /\ ret.out = TRUE /\ ret.arg[1] # <<>>
        /\ ret'.op = "getFull" /\ ret'.ok
        /\ HasKey(ret.arg[1]) /\ RowOf(ret.arg[1]).id = ret'.arg[1])
       => ret'.out = <<ret.arg[2]>>]_vars

\* C4 witness: add_secret has just replaced the value of an existing key by a
\* value holding a double quote, and the row is there to be read.
C4_Witness ==
    /\ ret.op = "add" /\ ret.out = TRUE /\ ret.arg = <<KeyK, ValQuote>>
    /\ HasKey(KeyK) /\ RowOf(KeyK).id > 1 /\ Cardinality(db) = 2

\* C5 (as claimed): a key that is in the store before and after a call keeps
\* its id, whatever the call (add of the key, update, import of the key).
C5_IdImmutable ==
    [][\A r \in db : (\E n \in db' : n.key = r.key) =>
                     (\E n \in db' : n.key = r.key /\ n.id = r.id)]_vars

\* C6: the ids the store assigns are strictly increasing over its whole life,
\* so an id is never assigned twice, also after the row holding the largest id
\* was deleted; and every row carries an assigned id.
C6_IdsNeverReused ==
    /\ \A i, j \in 1..Len(assigned) : i < j => assigned[i] < assigned[j]
    /\ \A r \in db : \E i \in 1..Len(assigned) : assigned[i] = r.id

\* C6 witness: three ids were assigned, the second one (the largest at the
\* time) is gone from the table and the row created after that holds id 3.
C6_Witness ==
    /\ assigned = <<1, 2, 3>>
    /\ IdsIn(db) = {1, 3}
    /\ ret.op = "add" /\ ret.out = TRUE

----------------------------------------------------------------------------
(* The masking formatter alone, under SpecMask *)

MaskChars == {"a", "b", "U+00E9"}
MaskInputs == UNION {[1..n -> MaskChars] : n \in 0..MaxLen}
NotRun == <<"!none">>

InitMask ==
    /\ db = {}
    /\ seq = 0
    /\ now = 0
    /\ assigned = <<>>
    /\ ret = Ret("none", <<>>, TRUE, <<>>)
    /\ dotfile = NoFile
    /\ profiles = [p \in ProfileNames |-> NoFile]
    /\ imp = [c \in Callers |-> Idle]
    /\ syn = [c \in Callers |-> SynIdle]
    /\ mval \in MaskInputs
    /\ mout = NotRun

\* mask_value applied to the input.
ApplyMask ==
    /\ mout = NotRun
    /\ mout' = mask_value(mval)
    /\ UNCHANGED <<db, seq, now, assigned, ret, files, imp, syn, mval>>

NextMask == ApplyMask

SpecMask == InitMask /\ [][NextMask]_vars

\* C3 (as claimed): the mask of a value of at most 8 characters is as many
\* asterisks as the value has characters, and the mask of a longer value is
\* its first 4 characters, "...", and its last 4 characters.
C3_MaskByCharacters ==
    mout # NotRun =>
        LET n == Len(mval)
        IN  IF n <= 8
            THEN mout = Stars(n)
            ELSE mout = SubSeq(mval, 1, 4) \o <<".", ".", ".">> \o SubSeq(mval, n - 3, n)

----------------------------------------------------------------------------
(* What the read calls show of the stored values, under SpecView *)

ViewKeys == {KeyAB, KeyLower}
ViewValues == {ValStars, ValDots, ValQuote, ValLong, ValEuro}

\* Writes, then list, search, getFull and export; the text of an export can be
\* handed to an import.
NextView ==
    \/ \E key \in ViewKeys, value \in ViewValues, ok \in BOOLEAN : AddSecret(key, value, ok)
    \/ \E id \in Ids, ok \in BOOLEAN : DeleteSecret(id, ok)
    \/ \E id \in Ids, ok \in BOOLEAN : GetFullSecret(id, ok)
    \/ \E ok \in BOOLEAN : GetAllSecrets(ok)
    \/ \E query \in {<<>>, <<"a">>}, ok \in BOOLEAN : SearchVault(query, ok)
    \/ \E ok \in BOOLEAN : ExportToEnvString(ok)
    \/ \E failed \in SUBSET (1..2), ok \in BOOLEAN :
          ret.op = "export" /\ ImportFromEnvString(ret.out, failed, ok)

SpecView == Init /\ [][NextView]_vars

\* A value that mask_value maps to itself: asterisks only within 8 bytes (the
\* empty value too), or 11 bytes whose bytes 5 to 7 are "...".
SelfMasking(v) ==
    \/ ByteLen(v) <= 8 /\ \A i \in 1..Len(v) : v[i] = "*"
    \/ \E k \in 0..Len(v) :
          /\ ByteLen(SubSeq(v, 1, k)) = 4
          /\ SubSeq(v, k + 1, k + 3) = <<".", ".", ".">>
          /\ ByteLen(SubSeq(v, k + 4, Len(v))) = 4

\* C2 (as claimed): no summary returned by list or search carries a value
\* field equal to the raw stored value of its record.
C2_NeverRaw ==
    ret.op \in {"list", "search"} =>
        \A i \in 1..Len(ret.out) : \A r \in db :
            r.id = ret.out[i].id => ret.out[i].value_masked # r.value

\* C2 (amended): every summary returned by list or search is the id and key of
\* a stored row with mask_value(stored value) as its value field, and that
\* field equals the raw stored value only when the value is its own mask.
C2_AlwaysMasked ==
    ret.op \in {"list", "search"} =>
        \A i \in 1..Len(ret.out) : \E r \in db :
            /\ r.id = ret.out[i].id
            /\ r.key = ret.out[i].key
            /\ ret.out[i].value_masked = mask_value(r.value)
            /\ ret.out[i].value_masked = r.value => SelfMasking(r.value)

\* C2 witness: list returned two summaries, one whose value field is the raw
\* stored value (a self-masking value) and one whose value field differs from
\* the stored value.
C2_Witness ==
    /\ ret.op = "list" /\ Len(ret.out) = 2
    /\ \E r \in db : r.id = ret.out[1].id /\ r.value = ValDots
                     /\ ret.out[1].value_masked = ValDots
    /\ \E r \in db : r.id = ret.out[2].id /\ r.value = ValLong
                     /\ ret.out[2].value_masked # ValLong

Pairs(rows) == {<<r.key, r.value>> : r \in rows}

\* C8 (as claimed): an import of the text an export returned, with every
\* statement succeeding, leaves the store with exactly the (key, value) pairs
\* it held when the text was exported.
C8_RoundTrip ==
    [][(/\ ret.op = "export" /\ ret.ok
        /\ ret'.op = "import" /\ ret'.ok /\ ret'.arg = <<ret.out, {}>>)
       => Pairs(db') = Pairs(db)]_vars

----------------------------------------------------------------------------
(* Search, under SpecSearch *)

\* Writes of one value under three keys, then search, list and export.
NextSearch ==
    \/ \E key \in Keys, ok \in BOOLEAN : AddSecret(key, ValShort, ok)
    \/ \E id \in Ids, ok \in BOOLEAN : DeleteSecret(id, ok)
    \/ \E query \in Queries, ok \in BOOLEAN : SearchVault(query, ok)
    \/ \E ok \in BOOLEAN : GetAllSecrets(ok)
    \/ \E ok \in BOOLEAN : ExportToEnvString(ok)

SpecSearch == Init /\ [][NextSearch]_vars

\* query occurs in key as a contiguous substring, letters compared without
\* regard to ASCII case and every other character literally.
ContainsNoCase(key, query) ==
    \E i \in 0..(Len(key) - Len(query)) :
        \A j \in 1..Len(query) : FoldCode(key[i + j]) = FoldCode(query[j])

\* C10 (as claimed): a search that reaches the store returns exactly the rows
\* whose key contains the query as a literal case-insensitive substring, in
\* key-ascending order, cut to the first 20.
C10_LiteralSubstring ==
    (ret.op = "search" /\ ret.ok /\ ~ret.panic) =>
        ret.out = CollectItems(Limit(OrderByKey({r \in db : ContainsNoCase(r.key, ret.arg[1])}),
                                     SearchLimit))

----------------------------------------------------------------------------
(* Several callers, under SpecConc.  Each statement is one atomic step of    *)
(* SQLite; import_from_env_string runs one statement per accepted line, so   *)
(* the statements of other callers can fall between them.                    *)

\* import_from_env_string, lib.rs 196-201: the connection is opened (return 0
\* when that fails) and the loop starts.
ImportBegin(c, content, ok) ==
    /\ ~imp[c].busy
    /\ IF ok
       THEN /\ imp' = [imp EXCEPT ![c] = [lines |-> Entries(content), imported |-> 0,
                                          busy |-> TRUE]]
            /\ UNCHANGED ret
       ELSE /\ ret' = Ret("import", <<content, {}>>, FALSE, 0)
            /\ UNCHANGED imp
    /\ UNCHANGED <<db, seq, now, assigned, files, syn, masking>>

\* One round of the loop, lib.rs 214-220: the INSERT OR REPLACE of the next
\* accepted line, counted when it succeeds.
ImportLine(c, ok) ==
    /\ imp[c].busy
    /\ imp[c].lines # <<>>
    /\ ok => seq < MaxId
    /\ LET e == Head(imp[c].lines)
           st == IF ok THEN InsertOrReplace(Store, now, e.key, e.value) ELSE Store
       IN  /\ db' = st.db
           /\ seq' = st.seq
           /\ assigned' = st.assigned
    /\ imp' = [imp EXCEPT ![c] = [lines |-> Tail(imp[c].lines),
                                  imported |-> imp[c].imported + (IF ok THEN 1 ELSE 0),
                                  busy |-> TRUE]]
    /\ UNCHANGED <<now, ret, files, syn, masking>>

\* The loop is over: the count is returned, lib.rs 225.
ImportEnd(c) ==
    /\ imp[c].busy
    /\ imp[c].lines = <<>>
    /\ ret' = Ret("import", <<>>, TRUE, imp[c].imported)
    /\ imp' = [imp EXCEPT ![c] = Idle]
    /\ UNCHANGED <<db, seq, now, assigned, files, syn, masking>>

\* A caller that is not inside an import makes a call.
NextConc ==
    \/ \E c \in Callers, content \in Texts, ok \in BOOLEAN : ImportBegin(c, content, ok)
    \/ \E c \in Callers, ok \in BOOLEAN : ImportLine(c, ok)
    \/ \E c \in Callers : ImportEnd(c)
    \/ \E c \in Callers, key \in CrudKeys, value \in CrudValues, ok \in BOOLEAN :
          ~imp[c].busy /\ AddSecret(key, value, ok)
    \/ \E c \in Callers, id \in Ids, value \in CrudValues, ok \in BOOLEAN :
          ~imp[c].busy /\ UpdateSecret(id, value, ok)
    \/ \E c \in Callers, id \in Ids, ok \in BOOLEAN :
          ~imp[c].busy /\ DeleteSecret(id, ok)

SpecConc == Init /\ [][NextConc]_vars

\* C1: in every interleaving of add, update, delete and import statements the
\* table never holds two rows with the same key, and a successful
\* add_secret(K, V) leaves exactly one row with key K, holding V.
C1_OneRowPerKey ==
    [][/\ \A r1, r2 \in db' : r1.key = r2.key => r1 = r2
       /\ (imp' = imp /\ ret'.op = "add" /\ ret'.out = TRUE) =>
             /\ Cardinality({r \in db' : r.key = ret'.arg[1]}) = 1
             /\ \A r \in db' : r.key = ret'.arg[1] => r.value = ret'.arg[2]]_vars

\* C1 witness: add_secret(K, V2) has just replaced an earlier value of K while
\* another caller is in the middle of an import that has written a line.
C1_Witness ==
    /\ ret.op = "add" /\ ret.out = TRUE /\ ret.arg = <<KeyK, ValQuote>>
    /\ HasKey(KeyK) /\ RowOf(KeyK).id > 1 /\ RowOf(KeyK).value = ValQuote
    /\ \E c \in Callers : imp[c].busy /\ imp[c].imported = 1 /\ imp[c].lines # <<>>

----------------------------------------------------------------------------
(* Shell sync, under SpecSync *)

\* source_line, lib.rs 299.
SourceLine ==
    <<"\n", "#", " ", "E", "n", "v", "V", "a", "u", "l", "t", " ", "s", "e",
      "c", "r", "e", "t", "s", "\n", "[", " ", "-", "f", " ", "~", "/", ".",
      "e", "n", "v", "v", "a", "u", "l", "t", " ", "]", " ", "&", "&", " ",
      "s", "o", "u", "r", "c", "e", " ", "~", "/", ".", "e", "n", "v", "v",
      "a", "u", "l", "t", "\n">>

\* The two sourcing forms looked for, lib.rs 306.
SourceForm ==
    <<"s", "o", "u", "r", "c", "e", " ", "~", "/", ".", "e", "n", "v", "v",
      "a", "u", "l", "t">>
DotForm ==
    <<".", " ", "~", "/", ".", "e", "n", "v", "v", "a", "u", "l", "t">>

\* A check that knows the "source" form only.
SourcedBySourceOnly(content) == Contains(content, SourceForm)

\* The guard of lib.rs 306, negated: the profile already sources the dotfile.
AlreadySourced(content) == Contains(content, SourceForm) \/ Contains(content, DotForm)

\* The profiles in the order of the loop, lib.rs 301.
ProfileOrder == <<".zshrc", ".bashrc", ".bash_profile">>

\* The step of the loop body that fails for a profile, if any.
ProfileFaults == {"read", "open", "append"}

\* A write that replaces the profile by the block.
OverwriteWithBlock(content) == SourceLine

\* write_all on the file opened for append, lib.rs 308-315.
AppendBlock(content) == content \o SourceLine

\* The loop body of lib.rs 302-319 for one profile.  fault is "none", or the
\* step that fails: "read" (read_to_string, the if-let is skipped), "open"
\* (the open for append, continue) or "append" (write_all, its result is
\* dropped and nothing is added to the file).
PatchProfile(content, fault) ==
    IF content = NoFile THEN content
    ELSE IF fault = "read" THEN content
    ELSE IF AlreadySourced(content) THEN content
    ELSE IF fault = "open" THEN content
    ELSE IF fault = "append" THEN content
    ELSE AppendBlock(content)

\* The fault of profile p in a call where the profiles of pfail fail at kind.
FaultOf(p, pfail, kind) == IF p \in pfail THEN kind ELSE "none"

\* A loop that returns at the first profile whose step fails.
SyncStopsAtFailure(ok, readOk, wfail, pfail, kind) ==
    LET rows == IF readOk THEN OrderByKey(db) ELSE <<>>
        arg == [readOk |-> readOk, wfail |-> wfail, pfail |-> pfail, kind |-> kind]
        Reached(p) == \A i, j \in 1..Len(ProfileOrder) :
                         (ProfileOrder[j] = p /\ i < j) => ProfileOrder[i] \notin pfail
    IN  /\ IF ~ok
           THEN /\ ret' = Ret("sync", arg, FALSE, FALSE)
                /\ UNCHANGED files
           ELSE IF wfail # "none"
           THEN /\ ret' = Ret("sync", arg, TRUE, FALSE)
                /\ dotfile' = IF wfail = "create" THEN dotfile ELSE <<>>
                /\ UNCHANGED profiles
           ELSE /\ ret' = Ret("sync", arg, TRUE, TRUE)
                /\ dotfile' = ShellText(rows)
                /\ profiles' = [p \in ProfileNames |->
                                   IF Reached(p)
                                   THEN PatchProfile(profiles[p], FaultOf(p, pfail, kind))
                                   ELSE profiles[p]]
        /\ UNCHANGED <<db, seq, now, assigned, imp, syn, masking>>

\* sync_to_shell, lib.rs 266-323.  ok: the connection opens and the statement
\* prepares; readOk: query_map yields the rows (else unwrap_or_default yields
\* none); wfail: "none", or the dotfile write fails at "create" (file
\* untouched) or at "write" (file left truncated); pfail: the profiles for
\* which the step kind of the loop body fails.
SyncToShell(ok, readOk, wfail, pfail, kind) ==
    LET rows == IF readOk THEN OrderByKey(db) ELSE <<>>
        content == ShellText(rows)
        arg == [readOk |-> readOk, wfail |-> wfail, pfail |-> pfail, kind |-> kind]
    IN  /\ IF ~ok
           THEN /\ ret' = Ret("sync", arg, FALSE, FALSE)
                /\ UNCHANGED files
           ELSE IF wfail # "none"
           THEN /\ ret' = Ret("sync", arg, TRUE, FALSE)
                /\ dotfile' = IF wfail = "create" THEN dotfile ELSE <<>>
                /\ UNCHANGED profiles
           ELSE /\ ret' = Ret("sync", arg, TRUE, TRUE)
                /\ dotfile' = content
                /\ profiles' = [p \in ProfileNames |->
                                   PatchProfile(profiles[p], FaultOf(p, pfail, kind))]
        /\ UNCHANGED <<db, seq, now, assigned, imp, syn, masking>>

\* Profile contents before the first sync.
UserText == <<"x", "\n">>
SourceText == <<"s", "o", "u", "r", "c", "e", " ", "~", "/", ".", "e", "n", "v", "v", "a", "u", "l", "t", "\n">>
DotText == <<".", " ", "~", "/", ".", "e", "n", "v", "v", "a", "u", "l", "t", "\n">>

InitSync ==
    /\ db = {}
    /\ seq = 0
    /\ now = 0
    /\ assigned = <<>>
    /\ ret = Ret("none", <<>>, TRUE, <<>>)
    /\ dotfile = NoFile
    /\ profiles \in {f \in [ProfileNames -> {NoFile, UserText, SourceText, DotText}] :
                        /\ f[".zshrc"] \in {NoFile, UserText}
                        /\ f[".bashrc"] \in {UserText, SourceText}
                        /\ f[".bash_profile"] \in {UserText, DotText}}
    /\ imp = [c \in Callers |-> Idle]
    /\ syn = [c \in Callers |-> SynIdle]
    /\ mval = <<>>
    /\ mout = <<>>

NextSync ==
    \/ \E value \in CrudValues, ok \in BOOLEAN : AddSecret(KeyK, value, ok)
    \/ \E id \in Ids, ok \in BOOLEAN : DeleteSecret(id, ok)
    \/ SyncToShell(FALSE, TRUE, "none", {}, "read")
    \/ \E readOk \in BOOLEAN, wfail \in {"create", "write"} :
          SyncToShell(TRUE, readOk, wfail, {}, "read")
    \/ SyncToShell(TRUE, FALSE, "none", {}, "read")
    \/ \E pfail \in SUBSET ProfileNames, kind \in ProfileFaults :
          /\ pfail = {} => kind = "read"
          /\ SyncToShell(TRUE, TRUE, "none", pfail, kind)

SpecSync == InitSync /\ [][NextSync]_vars

\* Number of copies of the sourcing block in a text.
BlockCount(content) ==
    Cardinality({i \in 0..(Len(content) - Len(SourceLine)) :
                    SubSeq(content, i + 1, i + Len(SourceLine)) = SourceLine})

\* C9: in every sync_to_shell call of a sequence of calls that returns true,
\* an existing profile without a sourcing line whose read and append succeed
\* gains the sourcing block, once (it then holds exactly one block); a profile
\* that contains "source ~/.envvault" or ". ~/.envvault", among them every
\* profile patched by an earlier call, is left as it is; and a call that
\* follows a call with the store unchanged, both having read the rows, writes
\* the same dotfile content.
C9_SyncIdempotent ==
    [][(ret'.op = "sync" /\ ret'.out = TRUE) =>
         /\ \A p \in ProfileNames :
               /\ ( /\ profiles[p] # NoFile
                    /\ ~Contains(profiles[p], SourceForm)
                    /\ ~Contains(profiles[p], DotForm)
                    /\ p \notin ret'.arg.pfail )
                  => ( /\ profiles'[p] = profiles[p] \o SourceLine
                       /\ BlockCount(profiles'[p]) = 1 )
               /\ ( Contains(profiles[p], SourceForm) \/ Contains(profiles[p], DotForm) )
                  => profiles'[p] = profiles[p]
               /\ BlockCount(profiles'[p]) <= 1
         /\ ( ret.op = "sync" /\ ret.out = TRUE /\ ret.arg.readOk /\ ret'.arg.readOk )
            => dotfile' = dotfile]_vars

\* C9 witness: a sync that followed an earlier sync: .zshrc, whose patch
\* fails in this call, holds the one block the earlier call appended, .bashrc
\* holds one block too, and the dotfile holds the stored secret.
C9_Witness ==
    /\ ret.op = "sync" /\ ret.out = TRUE /\ ret.arg.readOk
    /\ ret.arg.pfail = {".zshrc"}
    /\ BlockCount(profiles[".zshrc"]) = 1
    /\ BlockCount(profiles[".bashrc"]) = 1
    /\ profiles[".bash_profile"] = DotText
    /\ db # {} /\ dotfile = ShellText(OrderByKey(db))

\* ---------------------------------------------------------------------------
\* Timestamps: one key written by add_secret, update_secret and a re-import
\* while the clock of CURRENT_TIMESTAMP advances.

TextK == <<"K", "=", "v", "1">>

NextTime ==
    \/ Tick
    \/ \E value \in CrudValues, ok \in BOOLEAN : AddSecret(KeyK, value, ok)
    \/ \E id \in Ids, value \in CrudValues, ok \in BOOLEAN : UpdateSecret(id, value, ok)
    \/ \E id \in Ids, ok \in BOOLEAN : DeleteSecret(id, ok)
    \/ \E failed \in SUBSET (1..1), ok \in BOOLEAN : ImportFromEnvString(TextK, failed, ok)

SpecTime == Init /\ [][NextTime]_vars

\* C11 (as claimed): the created_at of the record of a key is set when the key
\* is first inserted and no later add_secret of the key, update_secret of the
\* record or re-import of the key changes it, while each of these writes sets
\* updated_at to the time of the write.
C11_CreatedOnce ==
    [][\A r \in db : \A n \in db' :
          n.key = r.key =>
             /\ n.created_at = r.created_at
             /\ (n # r => n.updated_at = now)]_vars

\* C12: a sync_to_shell whose dotfile write fails returns false and leaves
\* every profile as it was; a call whose dotfile write succeeds returns true
\* whatever happens for the profiles: a missing profile stays missing, a
\* profile whose read, open for append or append fails stays as it was, and
\* every other existing profile without a sourcing line still gains the block,
\* whichever profiles failed before it in the loop.
C12_OnlyDotfileWriteIsFatal ==
    [][(ret'.op = "sync" /\ ret'.ok) =>
         /\ ret'.arg.wfail # "none" => (ret'.out = FALSE /\ profiles' = profiles)
         /\ ret'.arg.wfail = "none" =>
               /\ ret'.out = TRUE
               /\ \A p \in ProfileNames :
                     /\ profiles[p] = NoFile => profiles'[p] = NoFile
                     /\ p \in ret'.arg.pfail => profiles'[p] = profiles[p]
                     /\ ( /\ p \notin ret'.arg.pfail
                          /\ profiles[p] # NoFile
                          /\ ~Contains(profiles[p], SourceForm)
                          /\ ~Contains(profiles[p], DotForm) )
                        => profiles'[p] = profiles[p] \o SourceLine]_vars

\* C12 witness: a call returned true although the open for append of .zshrc
\* failed: .zshrc is left as it was and .bashrc, next in the loop, holds the
\* block.
C12_Witness ==
    /\ ret.op = "sync" /\ ret.out = TRUE
    /\ ret.arg.pfail = {".zshrc"} /\ ret.arg.kind = "open"
    /\ profiles[".zshrc"] = UserText
    /\ profiles[".bashrc"] = UserText \o SourceLine

\* C13 (as claimed): whenever sync_to_shell has returned true, the dotfile
\* holds exactly the lines export KEY="VALUE" (double quotes written as \") of
\* all rows now in the store, key ascending, joined by newlines with no
\* trailing newline, in place of what it held before; so a failure to read
\* the rows never gives a true result with an emptied dotfile.
C13_DotfileReflectsStore ==
    (ret.op = "sync" /\ ret.out = TRUE) => dotfile = ShellText(OrderByKey(db))

\* ---------------------------------------------------------------------------
\* Import of .env text: whole calls of import_from_env_string on texts with
\* comments, blank lines, lines without "=", empty keys, repeated keys and
\* values that hold "=".

TextEq == <<"#", "K", "=", "v", "1", "\n", "K", "=", "a", "=", "b">>
ImportTexts == Texts \cup {TextEq}

NextImport ==
    \/ \E content \in ImportTexts, failed \in SUBSET (1..2), ok \in BOOLEAN :
          ImportFromEnvString(content, failed, ok)
    \/ \E ok \in BOOLEAN : AddSecret(KeyK, ValShort, ok)
    \/ \E id \in Ids, ok \in BOOLEAN : DeleteSecret(id, ok)

SpecImport == Init /\ [][NextImport]_vars

\* The position of the first "=" of a text that holds one.
FirstEq(t) == CHOOSE i \in 1..Len(t) : t[i] = "=" /\ \A j \in 1..(i - 1) : t[j] # "="

\* The text of a line before and after its first "=".
KeyText(l) == Trim(SubSeq(Trim(l), 1, FirstEq(Trim(l)) - 1))
ValueText(l) == SubSeq(Trim(l), FirstEq(Trim(l)) + 1, Len(Trim(l)))

\* A line the import accepts, as the claim states it: not blank and not a
\* comment after trimming, with an "=", and a key that is not empty.
Accepted(l) ==
    /\ Trim(l) # <<>>
    /\ Head(Trim(l)) # "#"
    /\ \E i \in 1..Len(Trim(l)) : Trim(l)[i] = "="
    /\ KeyText(l) # <<>>

\* C14: an import_from_env_string that reaches the store returns the number
\* of accepted lines whose write succeeded, a key on several lines being
\* counted once per line; a line is accepted when it is not blank, not a
\* comment after trimming, holds "=" and has a non-empty trimmed key before
\* its first "="; and afterwards every key written holds the decoded text
\* after the first "=" of the last of its lines that was written.
C14_ImportCountsAcceptedLines ==
    (ret.op = "import" /\ ret.ok) =>
       LET acc == SelectSeq(Lines(ret.arg[1]), Accepted)
           written == (1..Len(acc)) \ ret.arg[2]
           Decoded(l) == TrimMatches(TrimMatches(Trim(ValueText(l)), "\""), "'")
       IN  /\ ret.out = Cardinality(written)
           /\ \A i \in written :
                 (\A j \in written : j > i => KeyText(acc[j]) # KeyText(acc[i]))
                 => \E r \in db : r.key = KeyText(acc[i]) /\ r.value = Decoded(acc[i])

\* C14 witness: the import of the three-line example (one assignment, one
\* comment, one quoted assignment) returned 2 and both keys hold their value.
C14_Witness ==
    /\ ret.op = "import" /\ ret.ok /\ ret.arg = <<TextExample, {}>> /\ ret.out = 2
    /\ HasKey(KeyAB) /\ RowOf(KeyAB).value = ValShort
    /\ HasKey(KeyK) /\ RowOf(KeyK).value = ValShort

\* ---------------------------------------------------------------------------
\* Decoding of one value: the line K=<text> parsed by the import, for every
\* text of quotes, apostrophes, spaces and a letter up to MaxText characters.

DecodeChars == {"\"", "'", "a", " "}
DecodeInputs == UNION {[1..n -> DecodeChars] : n \in 0..MaxText}

InitDecode ==
    /\ db = {}
    /\ seq = 0
    /\ now = 0
    /\ assigned = <<>>
    /\ ret = Ret("none", <<>>, TRUE, <<>>)
    /\ dotfile = NoFile
    /\ profiles = [p \in ProfileNames |-> NoFile]
    /\ imp = [c \in Callers |-> Idle]
    /\ syn = [c \in Callers |-> SynIdle]
    /\ mval \in DecodeInputs
    /\ mout = NotRun

\* The value the import stores for the line K=<mval>, lib.rs 204-211.
ApplyDecode ==
    /\ mout = NotRun
    /\ mout' = ParseLine(<<"K", "=">> \o mval)[1].value
    /\ UNCHANGED <<db, seq, now, assigned, ret, files, imp, syn, mval>>

NextDecode == ApplyDecode

SpecDecode == InitDecode /\ [][NextDecode]_vars

\* All characters of s are c.
AllOf(s, c) == \A i \in 1..Len(s) : s[i] = c

\* s neither starts nor ends with c.
NoneAtEnds(s, c) == s = <<>> \/ (Head(s) # c /\ s[Len(s)] # c)

\* C15 (as claimed): the trimmed value loses at most one leading and at most
\* one trailing double quote, then at most one leading and at most one
\* trailing single quote; further quote characters at either end are kept.
C15_StripsOneQuote ==
    mout # NotRun => mout = TrimOneEach(TrimOneEach(Trim(mval), "\""), "'")

\* C15 (amended): the trimmed value loses every leading and every trailing
\* double quote, and what is left then loses every leading and every trailing
\* single quote: the decoded value is what lies between a run of double
\* quotes followed by a run of single quotes at the start and a run of single
\* quotes followed by a run of double quotes at the end, these runs being as
\* long as they can be.
C15_StripsEveryQuote ==
    mout # NotRun =>
       LET t == Trim(mval)
       IN  \E i, j \in 0..Len(t) :
              /\ i + j <= Len(t)
              /\ AllOf(SubSeq(t, 1, i), "\"")
              /\ AllOf(SubSeq(t, Len(t) - j + 1, Len(t)), "\"")
              /\ LET u == SubSeq(t, i + 1, Len(t) - j)
                 IN  /\ NoneAtEnds(u, "\"")
                     /\ \E k, l \in 0..Len(u) :
                           /\ k + l <= Len(u)
                           /\ AllOf(SubSeq(u, 1, k), "'")
                           /\ AllOf(SubSeq(u, Len(u) - l + 1, Len(u)), "'")
                           /\ NoneAtEnds(SubSeq(u, k + 1, Len(u) - l), "'")
                           /\ mout = SubSeq(u, k + 1, Len(u) - l)

\* C15 witness: the value ""a"" was decoded to a, no quote left.
C15_Witness ==
    /\ mval = <<"\"", "\"", "a", "\"", "\"">>
    /\ mout = <<"a">>

\* ---------------------------------------------------------------------------
\* Listing and export of a store with more rows than the listing shows: two
\* rows more than the LIMIT of get_all_secrets, inserted from the largest key
\* down, so that the rows with the smallest ids come last in key order.

BigChars == <<"A", "B", "C", "K", "a", "b", "c", "d">>
BigKey(n) == <<BigChars[((n - 1) \div Len(BigChars)) + 1],
               BigChars[((n - 1) % Len(BigChars)) + 1]>>
BigCount == ListLimit + 2
BigRows ==
    {[id |-> BigCount + 1 - n, key |-> BigKey(n),
      value |-> IF n % 2 = 0 THEN ValShort ELSE ValLong,
      created_at |-> 0, updated_at |-> 0] : n \in 1..BigCount}

InitList ==
    /\ db = BigRows
    /\ seq = BigCount
    /\ now = 0
    /\ assigned = [i \in 1..BigCount |-> i]
    /\ ret = Ret("none", <<>>, TRUE, <<>>)
    /\ dotfile = NoFile
    /\ profiles = [p \in ProfileNames |-> NoFile]
    /\ imp = [c \in Callers |-> Idle]
    /\ syn = [c \in Callers |-> SynIdle]
    /\ mval = <<>>
    /\ mout = <<>>

\* The ids deleted and updated: the three rows that come last in key order,
\* so that the store holds from one row less to two rows more than the LIMIT.
ListIds == {1, 2, 3}

NextList ==
    \/ \E ok \in BOOLEAN : GetAllSecrets(ok)
    \/ \E ok \in BOOLEAN : ExportToEnvString(ok)
    \/ \E id \in ListIds, ok \in BOOLEAN : DeleteSecret(id, ok)
    \/ \E id \in ListIds, ok \in BOOLEAN : UpdateSecret(id, ValEuro, ok)

SpecList == InitList /\ [][NextList]_vars

\* The place of a row in ascending key order.
Rank(r) == 1 + Cardinality({o \in db : KeyLess(o.key, r.key)})

\* C16: a get_all_secrets that reaches the store and returns gives the first
\* 50 rows in ascending key order (all rows when there are at most 50), each
\* as its id, its key and the mask of its value; an export_to_env_string that
\* reaches the store gives one line per row, for all rows whatever their
\* number, in the same ascending key order.
C16_ListCappedExportNot ==
    /\ (ret.op = "list" /\ ret.ok /\ ~ret.panic) =>
          /\ Len(ret.out) = IF Cardinality(db) < 50 THEN Cardinality(db) ELSE 50
          /\ \A r \in db : Rank(r) <= 50 =>
                ret.out[Rank(r)] =
                   [id |-> r.id, key |-> r.key, value_masked |-> mask_value(r.value)]
    /\ (ret.op = "export" /\ ret.ok) =>
          LET ls == Lines(ret.out)
          IN  /\ Len(ls) = Cardinality(db)
              /\ \A r \in db : ls[Rank(r)] = Assignment(r)

\* C16 witness: the store holds 51 rows and the listing returned 50 summaries.
C16_Witness ==
    /\ ret.op = "list" /\ ret.ok /\ ~ret.panic
    /\ Cardinality(db) = 51
    /\ Len(ret.out) = 50

\* ---------------------------------------------------------------------------
\* Frame of the calls: every call of the interface on a store of two keys,
\* to see what each call changes and what it leaves alone.

\* get_envvault_path, lib.rs 256-262: the dotfile under the home directory,
\* or the bare file name when dirs::home_dir() yields None.
HomeDir == <<"/", "h">>
DotfileName == <<".", "e", "n", "v", "v", "a", "u", "l", "t">>
get_envvault_path(home) == IF home THEN HomeDir \o <<"/">> \o DotfileName ELSE DotfileName

\* get_envvault_file_path, lib.rs 326-329.
GetEnvvaultFilePath(home) ==
    /\ ret' = Ret("path", <<>>, TRUE, get_envvault_path(home))
    /\ UNCHANGED <<db, seq, now, assigned, files, imp, syn, masking>>

FrameQueries == {<<>>, <<"k">>}

NextFrame ==
    \/ \E ok \in BOOLEAN : InitDatabase(ok)
    \/ \E key \in CrudKeys, ok \in BOOLEAN : AddSecret(key, ValShort, ok)
    \/ \E id \in Ids, ok \in BOOLEAN : DeleteSecret(id, ok)
    \/ \E id \in Ids, ok \in BOOLEAN : UpdateSecret(id, ValQuote, ok)
    \/ \E failed \in SUBSET (1..1), ok \in BOOLEAN : ImportFromEnvString(TextK, failed, ok)
    \/ \E id \in Ids, ok \in BOOLEAN : GetFullSecret(id, ok)
    \/ \E ok \in BOOLEAN : GetAllSecrets(ok)
    \/ \E query \in FrameQueries, ok \in BOOLEAN : SearchVault(query, ok)
    \/ \E ok \in BOOLEAN : ExportToEnvString(ok)
    \/ \E ok \in BOOLEAN, wfail \in {"none", "write"} :
          SyncToShell(ok, TRUE, wfail, {}, "read")
    \/ \E home \in BOOLEAN : GetEnvvaultFilePath(home)

SpecFrame == Init /\ [][NextFrame]_vars

\* The keys held by a set of rows.
KeysOf(rows) == {r.key : r \in rows}

\* The text r.key= opens a line of the export.
HasLineOf(text, key) ==
    \E i \in 1..Len(Lines(text)) :
       SubSeq(Lines(text)[i], 1, Len(key) + 1) = key \o <<"=">>

\* C17: a delete_secret(id) that succeeds on an existing row removes that row
\* and no other: get_full_secret(id) then yields None, the row is in no
\* listing, search result or export, and every other row is as it was; a
\* read that follows the delete shows it; and no call other than
\* delete_secret makes a key of the store disappear.
C17_DeleteRemovesOnlyThatRecord ==
    [][/\ (ret'.op = "delete" /\ ret'.ok /\ ret'.arg[1] \in IdsIn(db)) =>
             \E r \in db :
                /\ r.id = ret'.arg[1]
                /\ db' = db \ {r}
                /\ SelectValue(db', r.id) = <<>>
                /\ \A i \in 1..Len(SelectAll(db')) : SelectAll(db')[i].id # r.id
                /\ \A q \in FrameQueries : \A i \in 1..Len(SelectLike(db', q)) :
                      SelectLike(db', q)[i].id # r.id
                /\ ~HasLineOf(EnvText(OrderByKey(db')), r.key)
       /\ (ret.op = "delete" /\ ret.ok /\ ret'.ok) =>
             /\ (ret'.op = "getFull" /\ ret'.arg[1] = ret.arg[1]) => ret'.out = <<>>
             /\ ret'.op \in {"list", "search"} =>
                   \A i \in 1..Len(ret'.out) : ret'.out[i].id # ret.arg[1]
       /\ ret'.op # "delete" => KeysOf(db) \subseteq KeysOf(db')]_vars

\* C17 witness: ids 1 and 2 were given to the rows of two keys, delete_secret(2)
\* has returned true, and the row with id 1 alone is left.
C17_Witness ==
    /\ ret.op = "delete" /\ ret.ok /\ ret.arg = <<2>>
    /\ assigned = <<1, 2>>
    /\ IdsIn(db) = {1}

\* C18: an update_secret(id, value) that succeeds on an existing row changes
\* the value of that row (and its updated_at) and nothing else: the row keeps
\* its id and key, the number of rows is the same and every other row is as
\* it was.
C18_UpdateChangesOnlyValue ==
    [][(ret'.op = "update" /\ ret'.ok /\ ret'.arg[1] \in IdsIn(db)) =>
          \E r \in db :
             /\ r.id = ret'.arg[1]
             /\ db' = (db \ {r}) \cup {[r EXCEPT !.value = ret'.arg[2], !.updated_at = now]}
             /\ Cardinality(db') = Cardinality(db)]_vars

\* C18 witness: of two rows, the one named by the update holds the new value
\* and the other one still holds the value it was added with.
C18_Witness ==
    /\ ret.op = "update" /\ ret.ok
    /\ Cardinality(db) = 2
    /\ \E r, o \in db :
          /\ r.id = ret.arg[1] /\ r.value = ValQuote /\ ret.arg[2] = ValQuote
          /\ o.id # r.id /\ o.value = ValShort

\* The calls that only read the store.
ReadOps == {"list", "search", "getFull", "export", "path", "sync"}

\* C19: get_all_secrets, search_vault, get_full_secret, export_to_env_string,
\* get_envvault_file_path and sync_to_shell leave the rows of the store and
\* its id sequence as they were, in every state and whatever they return.
C19_ReadsLeaveStore ==
    [][ret'.op \in ReadOps => (db' = db /\ seq' = seq)]_vars

\* C19 witness: sync_to_shell has written the dotfile from a store of two rows
\* and the two rows are there.
C19_Witness ==
    /\ ret.op = "sync" /\ ret.out = TRUE
    /\ Cardinality(db) = 2
    /\ dotfile = ShellText(OrderByKey(db))

\* ---------------------------------------------------------------------------
\* Concurrent sync_to_shell: two callers run the function at the same time
\* and their file operations interleave.  A caller writes the dotfile, then
\* for each profile in turn looks at it (exists, read_to_string, contains)
\* and, in a later step, opens it for append and writes the block.

\* The dotfile write, lib.rs 266-296; the profiles the caller found are kept
\* to compare with what the call leaves.
SyncBegin(c, ok, wfail) ==
    /\ syn[c].pc = "idle"
    /\ IF ~ok
       THEN /\ ret' = Ret("sync", [caller |-> c], FALSE, FALSE)
            /\ UNCHANGED <<files, syn>>
       ELSE IF wfail # "none"
       THEN /\ ret' = Ret("sync", [caller |-> c], TRUE, FALSE)
            /\ dotfile' = IF wfail = "create" THEN dotfile ELSE <<>>
            /\ UNCHANGED <<profiles, syn>>
       ELSE /\ dotfile' = ShellText(OrderByKey(db))
            /\ syn' = [syn EXCEPT ![c] = [pc |-> "check", at |-> 1, before |-> profiles]]
            /\ UNCHANGED <<ret, profiles>>
    /\ UNCHANGED <<db, seq, now, assigned, imp, masking>>

\* exists, read_to_string and the contains guard for the profile the loop is
\* at, lib.rs 304-306: the caller goes on to the append, or to the next
\* profile when the file is missing, the read fails or a sourcing line is there.
SyncCheck(c, readOk) ==
    /\ syn[c].pc = "check"
    /\ syn[c].at <= Len(ProfileOrder)
    /\ LET content == profiles[ProfileOrder[syn[c].at]]
       IN  syn' = [syn EXCEPT ![c] =
                      IF content = NoFile \/ ~readOk \/ AlreadySourced(content)
                      THEN [@ EXCEPT !.at = @ + 1]
                      ELSE [@ EXCEPT !.pc = "append"]]
    /\ UNCHANGED <<db, seq, now, assigned, ret, files, imp, masking>>

\* The open for append (no create: a missing file makes it fail) and
\* write_all, lib.rs 308-315; fault is "none", "open" or "append".
SyncAppend(c, fault) ==
    /\ syn[c].pc = "append"
    /\ LET p == ProfileOrder[syn[c].at]
       IN  profiles' = IF profiles[p] = NoFile \/ fault # "none"
                       THEN profiles
                       ELSE [profiles EXCEPT ![p] = AppendBlock(@)]
    /\ syn' = [syn EXCEPT ![c] = [@ EXCEPT !.pc = "check", !.at = @ + 1]]
    /\ UNCHANGED <<db, seq, now, assigned, ret, dotfile, imp, masking>>

\* The loop is over: true is returned, lib.rs 322.
SyncEnd(c) ==
    /\ syn[c].pc = "check"
    /\ syn[c].at > Len(ProfileOrder)
    /\ ret' = Ret("sync", [caller |-> c], TRUE, TRUE)
    /\ syn' = [syn EXCEPT ![c] = SynIdle]
    /\ UNCHANGED <<db, seq, now, assigned, files, imp, masking>>

NextShell ==
    \/ \E c \in Callers, ok \in BOOLEAN, wfail \in {"none", "create", "write"} :
          SyncBegin(c, ok, wfail)
    \/ \E c \in Callers, readOk \in BOOLEAN : SyncCheck(c, readOk)
    \/ \E c \in Callers, fault \in {"none", "open", "append"} : SyncAppend(c, fault)
    \/ \E c \in Callers : SyncEnd(c)

SpecShell == InitSync /\ [][NextShell]_vars

RECURSIVE Blocks(_)
\* k copies of the sourcing block.
Blocks(k) == IF k = 0 THEN <<>> ELSE SourceLine \o Blocks(k - 1)

\* C20: while callers run sync_to_shell at the same time, in every
\* interleaving of their file operations and up to the return of each call, a
\* profile that did not exist when a call began does not exist, and a profile
\* that existed holds what it held when the call began followed by copies of
\* the sourcing block and nothing else (at most one copy per caller).
C20_ProfilesOnlyGrowByBlocks ==
    \A c \in Callers : syn[c].pc # "idle" =>
       \A p \in ProfileNames :
          IF syn[c].before[p] = NoFile
          THEN profiles[p] = NoFile
          ELSE \E k \in 0..Cardinality(Callers) :
                  profiles[p] = syn[c].before[p] \o Blocks(k)

\* C20 witness: both callers found .bashrc without a sourcing line before
\* either had appended, and the call that is about to return leaves two
\* copies of the block after the text the profile held.
C20_Witness ==
    /\ \E c \in Callers :
          /\ syn[c].pc = "check" /\ syn[c].at > Len(ProfileOrder)
          /\ syn[c].before[".bashrc"] = UserText
    /\ profiles[".bashrc"] = UserText \o SourceLine \o SourceLine
    /\ profiles[".zshrc"] = NoFile

====
